---- MODULE Spec2Model ----
(***************************************************************************)
(* Model of the Pursue repository's authoring scripts:                     *)
(*   pursue-app/scripts/split-markdown-chapters.py  (split on "## ")       *)
(*   pursue-app/scripts/split-markdown-sections.py  (split on "### ")      *)
(*   scripts/fix_icon_borders.py, scripts/generate_densities.py            *)
(*                                                                         *)
(* A Python str is a sequence of one-character tokens.  Characters that    *)
(* have no printable form are written as named tokens (LF, CR, TAB, FF),   *)
(* and so are the two non-ASCII letters of the alphabet (E_ACUTE, e_acute).*)
(***************************************************************************)
EXTENDS Integers, Sequences, FiniteSets, TLC

----------------------------------------------------------------------------
(* Characters                                                              *)

LF == "LF"
CR == "CR"
TAB == "TAB"
\* Form feed: whitespace, and one of the extra line boundaries of splitlines().
FF == "FF"

\* The characters Python's \d matches (ASCII digits of the model's alphabet).
Digits == {"0", "1", "2", "3", "4", "5", "6", "7", "8", "9"}

\* The characters Python's \s and str.strip() treat as whitespace.
Whitespace == {" ", TAB, LF, CR, FF}

LowerLetters == <<"a", "b", "c", "d", "e", "f", "g", "h", "i", "j", "k", "l", "m",
                  "n", "o", "p", "q", "r", "s", "t", "u", "v", "w", "x", "y", "z">>
UpperLetters == <<"A", "B", "C", "D", "E", "F", "G", "H", "I", "J", "K", "L", "M",
                  "N", "O", "P", "Q", "R", "S", "T", "U", "V", "W", "X", "Y", "Z">>

\* The characters of the class [a-z0-9].
SlugChars == Digits \cup {LowerLetters[k] : k \in 1..Len(LowerLetters)}

IsDigit(c) == c \in Digits
IsSpace(c) == c \in Whitespace
IsSlugChar(c) == c \in SlugChars

\* str.lower() on one character.
LowerChar(c) ==
    IF \E k \in 1..Len(UpperLetters) : UpperLetters[k] = c
    THEN LowerLetters[CHOOSE k \in 1..Len(UpperLetters) : UpperLetters[k] = c]
    ELSE IF c = "E_ACUTE" THEN "e_acute" ELSE c

----------------------------------------------------------------------------
(* String helpers                                                          *)

\* The text from position i to the end (s[i-1:] in Python's 0-based terms).
From(s, i) == SubSeq(s, i, Len(s))

\* First position >= i that does not hold a digit (Len(s)+1 when none).
SkipDigits(s, i) ==
    CHOOSE j \in i..(Len(s) + 1) :
        /\ \A k \in i..(j - 1) : IsDigit(s[k])
        /\ (j = Len(s) + 1 \/ ~IsDigit(s[j]))

\* First position >= i that does not hold whitespace (Len(s)+1 when none).
SkipSpaces(s, i) ==
    CHOOSE j \in i..(Len(s) + 1) :
        /\ \A k \in i..(j - 1) : IsSpace(s[k])
        /\ (j = Len(s) + 1 \/ ~IsSpace(s[j]))

\* str.strip(): leading and trailing whitespace removed.
Strip(s) ==
    LET a == SkipSpaces(s, 1)
        b == CHOOSE j \in 0..Len(s) :
                 /\ \A k \in (j + 1)..Len(s) : IsSpace(s[k])
                 /\ (j = 0 \/ ~IsSpace(s[j]))
    IN  IF a > Len(s) THEN <<>> ELSE SubSeq(s, a, b)

\* str.strip("-"): leading and trailing hyphens removed.
StripHyphens(s) ==
    LET a == CHOOSE j \in 1..(Len(s) + 1) :
                 /\ \A k \in 1..(j - 1) : s[k] = "-"
                 /\ (j = Len(s) + 1 \/ s[j] # "-")
        b == CHOOSE j \in 0..Len(s) :
                 /\ \A k \in (j + 1)..Len(s) : s[k] = "-"
                 /\ (j = 0 \/ s[j] # "-")
    IN  IF a > Len(s) THEN <<>> ELSE SubSeq(s, a, b)

\* str.lower().
Lower(s) == [k \in 1..Len(s) |-> LowerChar(s[k])]

\* re.sub(r"[^a-z0-9]+", "-", s): every maximal run of characters outside
\* [a-z0-9] becomes one hyphen.
RECURSIVE HyphenateRuns(_)
HyphenateRuns(s) ==
    IF s = <<>> THEN <<>>
    ELSE IF IsSlugChar(Head(s)) THEN <<Head(s)>> \o HyphenateRuns(Tail(s))
    ELSE LET j == CHOOSE j \in 1..(Len(s) + 1) :
                      /\ \A k \in 1..(j - 1) : ~IsSlugChar(s[k])
                      /\ (j = Len(s) + 1 \/ IsSlugChar(s[j]))
         IN  <<"-">> \o HyphenateRuns(From(s, j))

\* re.sub(r"-+", "-", s): every maximal run of hyphens becomes one hyphen.
RECURSIVE CollapseHyphens(_)
CollapseHyphens(s) ==
    IF s = <<>> THEN <<>>
    ELSE IF Head(s) # "-" THEN <<Head(s)>> \o CollapseHyphens(Tail(s))
    ELSE LET j == CHOOSE j \in 1..(Len(s) + 1) :
                      /\ \A k \in 1..(j - 1) : s[k] = "-"
                      /\ (j = Len(s) + 1 \/ s[j] # "-")
         IN  <<"-">> \o CollapseHyphens(From(s, j))

----------------------------------------------------------------------------
(* heading_to_slug, both scripts                                           *)

ChapterToken == <<"c", "h", "a", "p", "t", "e", "r">>
SectionToken == <<"s", "e", "c", "t", "i", "o", "n">>

\* re.sub(r"^\d+\.\s*", "", heading)
StripChapterPrefix(h) ==
    LET d == SkipDigits(h, 1)
    IN  IF d > 1 /\ d <= Len(h) /\ h[d] = "."
        THEN From(h, SkipSpaces(h, d + 1))
        ELSE h

\* Mutant of StripDottedPair: the pattern has lost its optional dot,
\* r"^\d+\.\d+\s*".
StripDottedPairNoDot(h) ==
    LET d1 == SkipDigits(h, 1)
        d2 == SkipDigits(h, d1 + 1)
    IN  IF d1 > 1 /\ d1 <= Len(h) /\ h[d1] = "." /\ d2 > d1 + 1
        THEN From(h, SkipSpaces(h, d2))
        ELSE h

\* re.sub(r"^\d+\.\d+\.?\s*", "", heading)
StripDottedPair(h) ==
    LET d1 == SkipDigits(h, 1)
        d2 == SkipDigits(h, d1 + 1)
        e  == IF d2 <= Len(h) /\ h[d2] = "." THEN d2 + 1 ELSE d2
    IN  IF d1 > 1 /\ d1 <= Len(h) /\ h[d1] = "." /\ d2 > d1 + 1
        THEN From(h, SkipSpaces(h, e))
        ELSE h

\* re.sub(r"^\d+\.?\s*", "", s)
StripSingleNumber(h) ==
    LET d == SkipDigits(h, 1)
        e == IF d <= Len(h) /\ h[d] = "." THEN d + 1 ELSE d
    IN  IF d > 1 THEN From(h, SkipSpaces(h, e)) ELSE h

\* Mutant of SlugTail: the final .strip("-") is missing.
SlugTailUntrimmed(s) == CollapseHyphens(HyphenateRuns(Lower(s)))

\* The shared tail of heading_to_slug: lower, hyphenate, collapse, trim.
SlugTail(s) == StripHyphens(CollapseHyphens(HyphenateRuns(Lower(s))))

\* split-markdown-chapters.py heading_to_slug
ChapterSlug(heading) ==
    LET s == SlugTail(Strip(StripChapterPrefix(heading)))
    IN  IF s # <<>> THEN s ELSE ChapterToken

\* split-markdown-sections.py heading_to_slug
SectionSlug(heading) ==
    LET s1 == Strip(StripDottedPair(heading))
        s2 == Strip(StripSingleNumber(s1))
        s  == SlugTail(s2)
    IN  IF s # <<>> THEN s ELSE SectionToken

\* split-markdown-sections.py extract_section_number:
\* re.match(r"^(\d+(?:\.\d+)*)\.?\s+", heading); "" when there is no match.
RECURSIVE EndOfGroups(_, _)
EndOfGroups(h, d) ==
    \* d is the position after a digit group; consume further ".digits" groups
    IF d + 1 <= Len(h) /\ h[d] = "." /\ IsDigit(h[d + 1])
    THEN EndOfGroups(h, SkipDigits(h, d + 1))
    ELSE d

\* Mutant of extract_section_number: the pattern ends in \s*, not \s+.
extract_section_number_star(heading) ==
    LET d1 == SkipDigits(heading, 1)
        g  == EndOfGroups(heading, d1)
    IN  IF d1 > 1 THEN SubSeq(heading, 1, g - 1) ELSE <<>>

extract_section_number(heading) ==
    LET d1 == SkipDigits(heading, 1)
        g  == EndOfGroups(heading, d1)
        e  == IF g <= Len(heading) /\ heading[g] = "." THEN g + 1 ELSE g
    IN  IF d1 > 1 /\ e <= Len(heading) /\ IsSpace(heading[e])
        THEN SubSeq(heading, 1, g - 1)
        ELSE <<>>

----------------------------------------------------------------------------
(* Text I/O as the scripts use it                                          *)

RECURSIVE Join(_)
\* "".join(lines)
Join(ls) == IF ls = <<>> THEN <<>> ELSE Head(ls) \o Join(Tail(ls))

RECURSIVE ReadText(_)
\* Path.read_text(encoding="utf-8"): the file is opened in text mode with
\* newline=None, so CR LF and a lone CR both arrive as LF.
ReadText(b) ==
    IF b = <<>> THEN <<>>
    ELSE IF Head(b) = CR
         THEN <<LF>> \o ReadText(IF Len(b) >= 2 /\ b[2] = LF THEN From(b, 3) ELSE Tail(b))
         ELSE <<Head(b)>> \o ReadText(Tail(b))

RECURSIVE WriteText(_, _)
\* Path.write_text(chunk, encoding="utf-8"): text mode with newline=None, so
\* every LF leaves as os.linesep.
WriteText(t, sep) ==
    IF t = <<>> THEN <<>>
    ELSE (IF Head(t) = LF THEN sep ELSE <<Head(t)>>) \o WriteText(Tail(t), sep)

\* The characters at which str.splitlines() ends a line.
LineBreaks == {LF, CR, FF}

RECURSIVE SplitLines(_)
\* str.splitlines(keepends=True); CR LF is one boundary.
SplitLines(t) ==
    IF t = <<>> THEN <<>>
    ELSE LET b == CHOOSE j \in 1..(Len(t) + 1) :
                      /\ \A k \in 1..(j - 1) : t[k] \notin LineBreaks
                      /\ (j = Len(t) + 1 \/ t[j] \in LineBreaks)
             e == IF b > Len(t) THEN Len(t)
                  ELSE IF t[b] = CR /\ b < Len(t) /\ t[b + 1] = LF THEN b + 1
                  ELSE b
         IN  <<SubSeq(t, 1, e)>> \o SplitLines(From(t, e + 1))

----------------------------------------------------------------------------
(* The heading scan of main(), both scripts                                *)

\* Heading depth per script: "## " in chapters, "### " in sections.
Depth(m) == IF m = "chapters" THEN 2 ELSE 3

\* The "##" / "###" marker and its space, as the pattern spells them.
Marker(depth) == [k \in 1..depth |-> "#"] \o <<" ">>

\* Position after the group (.+) of re.match(r"^## (.+)$", line): "." stops
\* at LF.
GroupEnd(line, depth) ==
    CHOOSE j \in (depth + 2)..(Len(line) + 1) :
        /\ \A k \in (depth + 2)..(j - 1) : line[k] # LF
        /\ (j = Len(line) + 1 \/ line[j] = LF)

\* Mutant of HeadingMatches: the group is (.*), which may be empty.
HeadingMatchesStar(line, depth) ==
    /\ Len(line) >= depth + 1
    /\ SubSeq(line, 1, depth + 1) = Marker(depth)
    /\ GroupEnd(line, depth) >= Len(line)

\* re.match(r"^## (.+)$", line) succeeds: "$" holds at the end of the line
\* or before its final LF.
HeadingMatches(line, depth) ==
    /\ Len(line) >= depth + 2
    /\ SubSeq(line, 1, depth + 1) = Marker(depth)
    /\ GroupEnd(line, depth) > depth + 2
    /\ GroupEnd(line, depth) >= Len(line)

\* m.group(1).strip()
HeadingText(line, depth) == Strip(SubSeq(line, depth + 2, GroupEnd(line, depth) - 1))

\* chapter_starts / section_starts: <<1-based line number, heading text>>.
ScanHeadings(ls, depth) ==
    LET idx == SelectSeq([k \in 1..Len(ls) |-> k],
                         LAMBDA k : HeadingMatches(ls[k], depth))
    IN  [j \in 1..Len(idx) |-> <<idx[j], HeadingText(ls[idx[j]], depth)>>]

----------------------------------------------------------------------------
(* Chunks and file names                                                   *)

DigitSeq == <<"0", "1", "2", "3", "4", "5", "6", "7", "8", "9">>

RECURSIVE Decimal(_)
Decimal(n) == IF n < 10 THEN <<DigitSeq[n + 1]>> ELSE Decimal(n \div 10) \o <<DigitSeq[(n % 10) + 1]>>

\* f"{i + 1:02d}" with n = i + 1.
Fmt02(n) == IF n < 10 THEN <<"0">> \o Decimal(n) ELSE Decimal(n)

DotMd == <<".", "m", "d">>

\* Mutant of EndLine: the last chunk ends at len(lines), not len(lines) + 1.
EndLineShort(st, j, ls) == IF j < Len(st) THEN st[j + 1][1] ELSE Len(ls)

\* end_line of the j-th (1-based) start.
EndLine(st, j, ls) == IF j < Len(st) THEN st[j + 1][1] ELSE Len(ls) + 1

\* "".join(lines[start_line - 1 : end_line - 1])
Chunk(ls, start, end) == Join(SubSeq(ls, start, end - 1))

\* The file name of the j-th (1-based) chunk.
FileName(m, j, heading) ==
    IF m = "chapters"
    THEN Fmt02(j) \o <<"-">> \o ChapterSlug(heading) \o DotMd
    ELSE IF extract_section_number(heading) # <<>>
         THEN extract_section_number(heading) \o <<"-">> \o SectionSlug(heading) \o DotMd
         ELSE Fmt02(j) \o <<"-">> \o SectionSlug(heading) \o DotMd

\* Mutant of WriteFile: the file is opened for appending.
AppendFile(files, name, data) ==
    IF \E f \in files : f.name = name
    THEN {f \in files : f.name # name}
         \cup {[name |-> name, data |-> g.data \o data] : g \in {f \in files : f.name = name}}
    ELSE files \cup {[name |-> name, data |-> data]}

\* out_path.write_text(...): the file is created or truncated, then written.
WriteFile(files, name, data) ==
    {f \in files : f.name # name} \cup {[name |-> name, data |-> data]}

----------------------------------------------------------------------------
(* State                                                                   *)

VARIABLES
    mode,       \* which splitter runs: "chapters" or "sections"
    srcKind,    \* the source path: "missing", "dir" (not a regular file), "file"
    srcBytes,   \* the bytes of the source file
    linesep,    \* os.linesep of the platform the script runs on
    dirExists,  \* whether out_dir exists
    fs,         \* the files of out_dir: a set of [name, data]
    dir0,       \* dirExists before the first run
    fs0,        \* fs before the first run
    pc,         \* position in main()
    lines,      \* lines
    starts,     \* chapter_starts / section_starts
    i,          \* 1-based loop index of the write loop
    written,    \* the chunks of this run, in the order they were produced
    exitCode,   \* -1 while running, then the process's exit status
    run,        \* 1 for the first run, 2 for the run repeated on the same input
    fsAfter1    \* fs at the end of the first run

mainVars == <<mode, srcKind, srcBytes, linesep, dirExists, fs, dir0, fs0, pc,
              lines, starts, i, written, exitCode, run, fsAfter1>>

\* The functions of the splitters called on their own.
VARIABLES
    inKind,     \* what the input is: "heading" (a heading text) or "doc" (a text)
    inp,        \* the heading text, or the document text
    fn,         \* the function that was called, "none" before the call
    prefix,     \* the numeric prefix that was put before inp
    index,      \* the 1-based chunk index the file name was built for
    slugOut,    \* heading_to_slug's result
    slugBare,   \* heading_to_slug's result for inp without the prefix
    numOut,     \* extract_section_number's result
    nameOut,    \* the file name main() builds
    scanDepth,  \* the heading depth scanned for
    scanOut     \* the scan's list of <<line number, heading text>>

pureVars == <<inKind, inp, fn, prefix, index, slugOut, slugBare, numOut, nameOut,
              scanDepth, scanOut>>

\* The image scripts.
VARIABLES
    script,     \* "fix_borders" or "generate_densities"
    dirFiles,   \* the files of the source directory
    files,      \* files: what glob.glob returned, in its order
    cur,        \* 1-based position of the for loop over files
    ipc,        \* position in the function
    disk,       \* the image files the scripts write: a set of [path, content]
    outcome,    \* per file handled so far, how its iteration went
    log         \* the lines printed

imgVars == <<script, dirFiles, files, cur, ipc, disk, outcome, log>>

nonMainVars == <<pureVars, imgVars>>
nonPureVars == <<mainVars, imgVars>>
nonImgVars == <<mainVars, pureVars>>

vars == <<mainVars, pureVars, imgVars>>

----------------------------------------------------------------------------
(* Inputs of the splitter runs                                             *)

MaxLines == 3

Modes == {"chapters", "sections"}

\* Line bodies (without line terminator) the documents are built from.
Pool(m) ==
    IF m = "chapters"
    THEN { <<"x">>,
           <<"#", "#", " ", "1", ".", " ", "A">>,
           <<"#", "#", " ", "A">>,
           <<"#", "#", " ", " ">> }
    ELSE { <<"x">>,
           <<"#", "#", "#", " ", "1", ".", "1", " ", "A">>,
           <<"#", "#", "#", " ", "A">>,
           <<"#", "#", "#", " ", "0", "1", " ", "A">> }

Docs(m) == UNION { [1..n -> Pool(m)] : n \in 0..MaxLines }

Styles == {"lf", "crlf", "cr", "lf-nofinal"}

Terminator(style) ==
    CASE style = "crlf" -> <<CR, LF>>
      [] style = "cr" -> <<CR>>
      [] OTHER -> <<LF>>

\* The bytes of a file holding the lines of doc in the given newline style.
Bytes(doc, style) ==
    Join([k \in 1..Len(doc) |->
            IF style = "lf-nofinal" /\ k = Len(doc)
            THEN doc[k]
            ELSE doc[k] \o Terminator(style)])

Old == <<"o", "l", "d", LF>>

\* Files an earlier run left in out_dir.
StaleFiles ==
    { [name |-> <<"0", "1", "-", "a">> \o DotMd, data |-> Old],
      [name |-> <<"9", "9", "-", "z">> \o DotMd, data |-> Old] }

----------------------------------------------------------------------------
(* main(), both scripts                                                    *)

MainInit ==
    /\ mode \in Modes
    /\ linesep \in {<<LF>>, <<CR, LF>>}
    /\ \/ srcKind \in {"missing", "dir"} /\ srcBytes = <<>>
       \/ /\ srcKind = "file"
          /\ \E doc \in Docs(mode), style \in Styles : srcBytes = Bytes(doc, style)
    /\ \/ dir0 = FALSE /\ fs0 = {}
       \/ dir0 = TRUE /\ fs0 = StaleFiles
    /\ dirExists = dir0
    /\ fs = fs0
    /\ pc = "check"
    /\ lines = <<>>
    /\ starts = <<>>
    /\ i = 0
    /\ written = <<>>
    /\ exitCode = -1
    /\ run = 1
    /\ fsAfter1 = {}

\* if not source.exists(): sys.exit(...); if not source.is_file(): sys.exit(...)
CheckSource ==
    /\ pc = "check"
    /\ IF srcKind = "file"
       THEN pc' = "read" /\ exitCode' = exitCode
       ELSE pc' = "failed" /\ exitCode' = 1
    /\ UNCHANGED <<mode, srcKind, srcBytes, linesep, dirExists, fs, dir0, fs0,
                   lines, starts, i, written, run, fsAfter1>>
    /\ UNCHANGED nonMainVars

\* Mutant of ReadAndScan: out_dir is created before the headings are counted.
ReadAndScanMkdirFirst ==
    /\ pc = "read"
    /\ lines' = SplitLines(ReadText(srcBytes))
    /\ starts' = ScanHeadings(lines', Depth(mode))
    /\ dirExists' = TRUE
    /\ IF starts' = <<>>
       THEN pc' = "failed" /\ exitCode' = 1
       ELSE pc' = "mkdir" /\ exitCode' = exitCode
    /\ UNCHANGED <<mode, srcKind, srcBytes, linesep, fs, dir0, fs0,
                   i, written, run, fsAfter1>>
    /\ UNCHANGED nonMainVars

\* read_text, splitlines, the scan loop, and the exit when nothing matched
ReadAndScan ==
    /\ pc = "read"
    /\ lines' = SplitLines(ReadText(srcBytes))
    /\ starts' = ScanHeadings(lines', Depth(mode))
    /\ IF starts' = <<>>
       THEN pc' = "failed" /\ exitCode' = 1
       ELSE pc' = "mkdir" /\ exitCode' = exitCode
    /\ UNCHANGED <<mode, srcKind, srcBytes, linesep, dirExists, fs, dir0, fs0,
                   i, written, run, fsAfter1>>
    /\ UNCHANGED nonMainVars

\* out_dir.mkdir(parents=True, exist_ok=True)
MakeOutDir ==
    /\ pc = "mkdir"
    /\ dirExists' = TRUE
    /\ i' = 1
    /\ pc' = "write"
    /\ UNCHANGED <<mode, srcKind, srcBytes, linesep, fs, dir0, fs0, lines,
                   starts, written, exitCode, run, fsAfter1>>
    /\ UNCHANGED nonMainVars

\* One iteration of the write loop.
WriteChunk ==
    /\ pc = "write"
    /\ i <= Len(starts)
    /\ LET start_line == starts[i][1]
           heading    == starts[i][2]
           end_line   == EndLine(starts, i, lines)
           chunk      == Chunk(lines, start_line, end_line)
           filename   == FileName(mode, i, heading)
           data       == WriteText(chunk, linesep)
       IN  /\ fs' = WriteFile(fs, filename, data)
           /\ written' = Append(written,
                  [name |-> filename, chunk |-> chunk, data |-> data,
                   start |-> start_line, end |-> end_line])
    /\ i' = i + 1
    /\ UNCHANGED <<mode, srcKind, srcBytes, linesep, dirExists, dir0, fs0, pc,
                   lines, starts, exitCode, run, fsAfter1>>
    /\ UNCHANGED nonMainVars

\* The loop is over: the summary line, and main() returns.
Finish ==
    /\ pc = "write"
    /\ i > Len(starts)
    /\ pc' = "done"
    /\ exitCode' = 0
    /\ UNCHANGED <<mode, srcKind, srcBytes, linesep, dirExists, fs, dir0, fs0,
                   lines, starts, i, written, run, fsAfter1>>
    /\ UNCHANGED nonMainVars

\* The same command is run a second time on the unchanged source.
RunAgain ==
    /\ pc = "done"
    /\ run = 1
    /\ run' = 2
    /\ fsAfter1' = fs
    /\ pc' = "check"
    /\ lines' = <<>>
    /\ starts' = <<>>
    /\ i' = 0
    /\ written' = <<>>
    /\ exitCode' = -1
    /\ UNCHANGED <<mode, srcKind, srcBytes, linesep, dirExists, fs, dir0, fs0>>
    /\ UNCHANGED nonMainVars

\* No function is being called on its own.
PureIdle ==
    /\ inKind = "none"
    /\ inp = <<>>
    /\ fn = "none"
    /\ prefix = <<>>
    /\ index = 0
    /\ slugOut = <<>>
    /\ slugBare = <<>>
    /\ numOut = <<>>
    /\ nameOut = <<>>
    /\ scanDepth = 0
    /\ scanOut = <<>>

\* No image script is running.
ImgIdle ==
    /\ script = "none"
    /\ dirFiles = {}
    /\ files = <<>>
    /\ cur = 0
    /\ ipc = "idle"
    /\ disk = {}
    /\ outcome = <<>>
    /\ log = <<>>

Init == MainInit /\ PureIdle /\ ImgIdle

Next ==
    \/ CheckSource
    \/ ReadAndScan
    \/ MakeOutDir
    \/ WriteChunk
    \/ Finish
    \/ RunAgain

Spec == Init /\ [][Next]_vars

----------------------------------------------------------------------------
(* The functions called on their own (specification SpecPure)              *)

MaxStrLen == 4

\* The characters heading texts are built from: a digit, the dot, a space,
\* a lower-case and an upper-case letter, the hyphen, a non-ASCII letter.
HeadingChars == {"2", ".", " ", "a", "B", "-", "e_acute"}

\* The headings the documentation gives as examples.
ExGettingStarted == <<"3", ".", " ", "G", "e", "t", "t", "i", "n", "g", " ", "S", "t", "a", "r", "t", "e", "d">>
ExHomeScreen == <<"4", ".", "1", " ", "H", "o", "m", "e", " ", "S", "c", "r", "e", "e", "n">>
ExDeepDive == <<"4", ".", "2", ".", "3", ".", " ", "D", "e", "e", "p", " ", "D", "i", "v", "e">>
ExNoNumber == <<"H", "o", "m", "e", " ", "S", "c", "r", "e", "e", "n">>
ExNumberLast == <<"F", "o", "o", " ", "4", ".", "1">>
ExBar == <<"4", ".", "2", ".", "3", ".", " ", "B", "a", "r">>
ExFoo == <<"4", ".", "1", " ", "F", "o", "o">>

Examples == {ExGettingStarted, ExHomeScreen, ExDeepDive, ExNoNumber, ExNumberLast, ExBar, ExFoo}

Headings == UNION { [1..n -> HeadingChars] : n \in 0..MaxStrLen } \cup Examples

\* Numeric prefixes as the chapter headings carry them: "N. ".
ChapterPrefixes == { <<"3", ".", " ">>, <<"1", "0", ".", " ">> }

\* Numeric prefixes as the section headings carry them: "N.N ", "N.N. ",
\* "N.N.N ", "N.N.N. " and the bare "N ".
SectionPrefixes ==
    { <<"4", ".", "1", " ">>, <<"4", ".", "1", ".", " ">>,
      <<"1", "0", ".", "2", " ">>,
      <<"4", ".", "2", ".", "3", " ">>, <<"4", ".", "2", ".", "3", ".", " ">>,
      <<"4", " ">> }

\* Chunk indices the file name is built for.
Indices == {1, 12}

MaxScanLines == 2

Hashes(n) == [k \in 1..n |-> "#"]

\* What follows the run of "#" in the lines of the scanned texts.
ScanTails ==
    { <<>>, <<" ">>, <<" ", " ">>, <<" ", "a">>, <<"a">>, <<" ", "a", " ">>,
      <<" ", " ", "a">>, <<" ", FF>> }

ScanLines ==
    { Hashes(n) \o t : n \in 1..4, t \in ScanTails } \cup { <<" ", "#", "#", " ", "a">> }

\* Loaded texts: every line ends in LF, the last one possibly in nothing.
ScanTexts ==
    { Join([k \in 1..Len(d) |-> IF k = Len(d) /\ last = "open" THEN d[k] ELSE d[k] \o <<LF>>]) :
        d \in UNION { [1..n -> ScanLines] : n \in 0..MaxScanLines },
        last \in {"open", "closed"} }

\* No splitter is running.
MainIdle ==
    /\ mode = "chapters"
    /\ srcKind = "missing"
    /\ srcBytes = <<>>
    /\ linesep = <<LF>>
    /\ dirExists = FALSE
    /\ fs = {}
    /\ dir0 = FALSE
    /\ fs0 = {}
    /\ pc = "idle"
    /\ lines = <<>>
    /\ starts = <<>>
    /\ i = 0
    /\ written = <<>>
    /\ exitCode = -1
    /\ run = 1
    /\ fsAfter1 = {}

PureInit ==
    /\ \/ inKind = "heading" /\ inp \in Headings
       \/ inKind = "doc" /\ inp \in ScanTexts
    /\ fn = "none"
    /\ prefix = <<>>
    /\ index = 0
    /\ slugOut = <<>>
    /\ slugBare = <<>>
    /\ numOut = <<>>
    /\ nameOut = <<>>
    /\ scanDepth = 0
    /\ scanOut = <<>>

\* heading_to_slug(inp) of split-markdown-chapters.py
CallChapterSlug ==
    /\ inKind = "heading" /\ fn = "none"
    /\ fn' = "chapter_slug"
    /\ slugOut' = ChapterSlug(inp)
    /\ UNCHANGED <<inKind, inp, prefix, index, slugBare, numOut, nameOut, scanDepth, scanOut>>
    /\ UNCHANGED nonPureVars

\* heading_to_slug(inp) of split-markdown-sections.py
CallSectionSlug ==
    /\ inKind = "heading" /\ fn = "none"
    /\ fn' = "section_slug"
    /\ slugOut' = SectionSlug(inp)
    /\ UNCHANGED <<inKind, inp, prefix, index, slugBare, numOut, nameOut, scanDepth, scanOut>>
    /\ UNCHANGED nonPureVars

\* heading_to_slug(prefix + inp) and heading_to_slug(inp), chapters
CallPrefixedChapterSlug ==
    /\ inKind = "heading" /\ fn = "none"
    /\ fn' = "prefixed_chapter_slug"
    /\ \E p \in ChapterPrefixes :
          /\ prefix' = p
          /\ slugOut' = ChapterSlug(p \o inp)
    /\ slugBare' = ChapterSlug(inp)
    /\ UNCHANGED <<inKind, inp, index, numOut, nameOut, scanDepth, scanOut>>
    /\ UNCHANGED nonPureVars

\* heading_to_slug(prefix + inp) and heading_to_slug(inp), sections
CallPrefixedSectionSlug ==
    /\ inKind = "heading" /\ fn = "none"
    /\ fn' = "prefixed_section_slug"
    /\ \E p \in SectionPrefixes :
          /\ prefix' = p
          /\ slugOut' = SectionSlug(p \o inp)
    /\ slugBare' = SectionSlug(inp)
    /\ UNCHANGED <<inKind, inp, index, numOut, nameOut, scanDepth, scanOut>>
    /\ UNCHANGED nonPureVars

\* extract_section_number(inp), and the file name main() builds from it
CallSectionNumber ==
    /\ inKind = "heading" /\ fn = "none"
    /\ fn' = "section_number"
    /\ numOut' = extract_section_number(inp)
    /\ slugOut' = SectionSlug(inp)
    /\ \E n \in Indices :
          /\ index' = n
          /\ nameOut' = FileName("sections", n, inp)
    /\ UNCHANGED <<inKind, inp, prefix, slugBare, scanDepth, scanOut>>
    /\ UNCHANGED nonPureVars

\* lines = text.splitlines(keepends=True) and the scan loop of main()
CallScan ==
    /\ inKind = "doc" /\ fn = "none"
    /\ fn' = "scan"
    /\ \E d \in {Depth(m) : m \in Modes} :
          /\ scanDepth' = d
          /\ scanOut' = ScanHeadings(SplitLines(inp), d)
    /\ UNCHANGED <<inKind, inp, prefix, index, slugOut, slugBare, numOut, nameOut>>
    /\ UNCHANGED nonPureVars

InitPure == MainIdle /\ PureInit /\ ImgIdle

NextPure ==
    \/ CallChapterSlug
    \/ CallSectionSlug
    \/ CallPrefixedChapterSlug
    \/ CallPrefixedSectionSlug
    \/ CallSectionNumber
    \/ CallScan

SpecPure == InitPure /\ [][NextPure]_vars

----------------------------------------------------------------------------
(* fix_borders and generate_densities (specification SpecImages)           *)

MaxFiles == 2

\* Files the source directory may hold; all names start with ic_icon.
Candidates ==
    { [stem |-> "ic_icon_a", ext |-> "png"],
      [stem |-> "ic_icon_b", ext |-> "png"],
      [stem |-> "ic_icon_c", ext |-> "png"],
      [stem |-> "ic_icon_a", ext |-> "webp"] }

\* glob pattern: "ic_icon*.png" in fix_borders, "ic_icon*" in generate_densities.
Matches(sc, f) == IF sc = "fix_borders" THEN f.ext = "png" ELSE TRUE

\* The keys of the densities dict, in insertion order.
Densities == <<"drawable-mdpi", "drawable-hdpi", "drawable-xhdpi",
               "drawable-xxhdpi", "drawable-xxxhdpi">>

\* The paths one file's iteration writes, in the order it writes them.
Targets(sc, f) ==
    IF sc = "fix_borders"
    THEN << <<"images", f.stem, f.ext>> >>
    ELSE [d \in 1..Len(Densities) |-> <<Densities[d], f.stem, "png">>]

\* The statements of the try block that may raise, per script.
Stages(sc) ==
    IF sc = "fix_borders"
    THEN {"open", "transform", "save"}
    ELSE {"open", "convert", "makedirs", "resize", "save"}

\* How one file's iteration can go: it completes, or a statement raises after
\* n targets were written; a save that raises may leave a partial file.
Outcomes(sc, f) ==
    { [ok |-> TRUE, stage |-> "none", n |-> Len(Targets(sc, f)), partial |-> FALSE] }
    \cup { [ok |-> FALSE, stage |-> st, n |-> 0, partial |-> FALSE] :
             st \in Stages(sc) \ {"makedirs", "resize", "save"} }
    \cup { [ok |-> FALSE, stage |-> st, n |-> n, partial |-> FALSE] :
             st \in Stages(sc) \cap {"makedirs", "resize"},
             n \in 0..(Len(Targets(sc, f)) - 1) }
    \cup { [ok |-> FALSE, stage |-> "save", n |-> n, partial |-> pt] :
             n \in 0..(Len(Targets(sc, f)) - 1), pt \in BOOLEAN }

\* img.save(path, "PNG"): the file at path is replaced.
Save(dk, path, content) ==
    {e \in dk : e.path # path} \cup {[path |-> path, content |-> content]}

RECURSIVE SaveAll(_, _, _, _)
\* The first n targets of f written in full.
SaveAll(dk, sc, f, n) ==
    IF n = 0 THEN dk
    ELSE Save(SaveAll(dk, sc, f, n - 1), Targets(sc, f)[n], [from |-> f, state |-> "full"])

\* The disk after an iteration over f that went as o.
Effect(dk, sc, f, o) ==
    LET done == SaveAll(dk, sc, f, o.n)
    IN  IF o.partial
        THEN Save(done, Targets(sc, f)[o.n + 1], [from |-> f, state |-> "partial"])
        ELSE done

\* Mutant of Caught: the handler is "except OSError", which the failures of
\* the image operations in between are not.
CaughtOSErrorOnly(o) == o.stage \in {"open", "makedirs", "save"}

\* "except Exception as e": whatever a statement of the try block raised.
Caught(o) == TRUE

\* The lines one iteration prints.
IterationLog(sc, f, o) ==
    << [kind |-> "processing", file |-> f] >>
    \o (IF sc = "generate_densities"
        THEN [d \in 1..o.n |->
                 [kind |-> "wrote", file |-> f]]
        ELSE IF o.ok THEN << [kind |-> "fixed", file |-> f] >> ELSE <<>>)
    \o (IF o.ok THEN <<>> ELSE << [kind |-> "error", file |-> f] >>)

NoFile == [stem |-> "", ext |-> ""]

ImgInit ==
    /\ script \in {"fix_borders", "generate_densities"}
    /\ dirFiles \in {D \in SUBSET Candidates :
                        Cardinality({f \in D : Matches(script, f)}) <= MaxFiles}
    /\ files = <<>>
    /\ cur = 0
    /\ ipc = "start"
    /\ disk = IF script = "fix_borders"
              THEN {[path |-> <<"images", f.stem, f.ext>>,
                     content |-> [from |-> f, state |-> "original"]] : f \in dirFiles}
              ELSE {}
    /\ outcome = <<>>
    /\ log = <<>>

\* files = glob.glob(pattern); the early return when nothing matched,
\* otherwise the header line.
Glob ==
    /\ ipc = "start"
    /\ LET found == {f \in dirFiles : Matches(script, f)}
       IN  /\ files' \in {q \in [1..Cardinality(found) -> found] :
                             \A a, b \in 1..Cardinality(found) : a # b => q[a] # q[b]}
           /\ IF found = {}
              THEN /\ ipc' = "returned"
                   /\ log' = << [kind |-> "none_found", file |-> NoFile] >>
                   /\ cur' = cur
              ELSE /\ ipc' = "loop"
                   /\ log' = << [kind |-> "header", file |-> NoFile] >>
                   /\ cur' = 1
    /\ UNCHANGED <<script, dirFiles, disk, outcome>>
    /\ UNCHANGED nonImgVars

\* One iteration of "for file_path in files": the try block, and the except
\* clause when a statement raised.
ProcessFile ==
    /\ ipc = "loop"
    /\ cur <= Len(files)
    /\ \E o \in Outcomes(script, files[cur]) :
          /\ disk' = Effect(disk, script, files[cur], o)
          /\ outcome' = Append(outcome, o)
          /\ IF o.ok \/ Caught(o)
             THEN /\ log' = log \o IterationLog(script, files[cur], o)
                  /\ cur' = cur + 1
                  /\ ipc' = "loop"
             ELSE /\ log' = log \o SubSeq(IterationLog(script, files[cur], o), 1,
                                          Len(IterationLog(script, files[cur], o)) - 1)
                  /\ cur' = cur
                  /\ ipc' = "raised"
    /\ UNCHANGED <<script, dirFiles, files>>
    /\ UNCHANGED nonImgVars

\* The loop is over: the completion line, and the function returns.
Complete ==
    /\ ipc = "loop"
    /\ cur > Len(files)
    /\ log' = Append(log, [kind |-> "complete", file |-> NoFile])
    /\ ipc' = "returned"
    /\ UNCHANGED <<script, dirFiles, files, cur, disk, outcome>>
    /\ UNCHANGED nonImgVars

InitImages == MainIdle /\ PureIdle /\ ImgInit

NextImages ==
    \/ Glob
    \/ ProcessFile
    \/ Complete

SpecImages == InitImages /\ [][NextImages]_vars

----------------------------------------------------------------------------
(* Properties of the splitter runs (specification Spec)                    *)

\* The loaded document, recomputed from the source bytes.
Loaded == SplitLines(ReadText(srcBytes))

\* The 1-based numbers of the loaded lines that are headings of the mode's depth.
HeadingLines == {k \in 1..Len(Loaded) : HeadingMatches(Loaded[k], Depth(mode))}

FirstHeading == CHOOSE k \in HeadingLines : \A j \in HeadingLines : k <= j

ChunksInOrder == Join([j \in 1..Len(written) |-> written[j].chunk])

\* C1 (round trip): when a run that found headings is over, the chunks it
\* produced, concatenated in order, are exactly the loaded lines from the
\* first heading line through the last line.
C1_RoundTrip ==
    pc = "done" =>
        /\ HeadingLines # {}
        /\ ChunksInOrder = Join(SubSeq(Loaded, FirstHeading, Len(Loaded)))

\* C1 witness: a finished run over a document with text before its first
\* heading and more than one chunk.
C1_Witness == pc = "done" /\ FirstHeading > 1 /\ Len(written) >= 2

\* C2 (exhaustiveness), as claimed: after a successful run into an empty
\* output directory, the directory holds as many files as the document has
\* matching heading lines.
C2_OneFilePerHeading ==
    (pc = "done" /\ run = 1 /\ fs0 = {}) => Cardinality(fs) = Cardinality(HeadingLines)

\* The lines of the source file as they are on disk, terminators untouched.
SourceLines == SplitLines(srcBytes)

\* C3 (byte-exact excerpts), as claimed: the bytes written for a chunk are
\* the bytes of the chunk's line span in the source file.
C3_ByteExact ==
    \A j \in 1..Len(written) :
        written[j].data = Join(SubSeq(SourceLines, written[j].start, written[j].end - 1))

\* The input errors: no source, source not a regular file, no heading line.
InputError == srcKind # "file" \/ HeadingLines = {}

\* C4 (input-error failure): on an input error the run never gets past the
\* checks, ends with exit status 1, and leaves the output directory as it
\* was: not created, no file written; and the run fails for no other reason.
C4_InputErrorFails ==
    /\ InputError =>
          /\ pc \in {"check", "read", "failed"}
          /\ dirExists = dir0
          /\ fs = fs0
          /\ written = <<>>
          /\ exitCode # 0
          /\ (pc = "failed" => exitCode = 1)
    /\ pc = "failed" => InputError

\* C4 witness: a run over an existing, non-empty file without headings has
\* failed, and the output directory did not exist before.
C4_Witness ==
    pc = "failed" /\ srcKind = "file" /\ Len(lines) >= 2 /\ dir0 = FALSE

WrittenNames == {written[j].name : j \in 1..Len(written)}

\* C8 (overwrite idempotence): when the second run on the same source is
\* over, the output directory is as the first run left it, and at the end of
\* either run the earlier files the run did not name are still there unchanged.
C8_Idempotent ==
    pc = "done" =>
        /\ run = 2 => fs = fsAfter1
        /\ \A f \in fs0 : f.name \notin WrittenNames => f \in fs
        /\ \A f \in fs : f.name \in WrittenNames \/ f \in fs0

\* C8 witness: the second run is over in a directory that held earlier
\* files, one of which the run overwrote and one of which it left alone.
C8_Witness ==
    /\ pc = "done" /\ run = 2 /\ Len(written) >= 2
    /\ \E f \in fs0 : f.name \in WrittenNames
    /\ \E f \in fs0 : f.name \notin WrittenNames

----------------------------------------------------------------------------
(* Properties of the functions (specification SpecPure)                    *)

Chars(t) == {t[k] : k \in 1..Len(t)}

\* ^[a-z0-9]+(-[a-z0-9]+)*$
WellFormedSlug(t) ==
    /\ t # <<>>
    /\ \A k \in 1..Len(t) : t[k] = "-" \/ IsSlugChar(t[k])
    /\ t[1] # "-"
    /\ t[Len(t)] # "-"
    /\ \A k \in 1..(Len(t) - 1) : ~(t[k] = "-" /\ t[k + 1] = "-")

SlugCalls == {"chapter_slug", "section_slug", "prefixed_chapter_slug",
              "prefixed_section_slug", "section_number"}

DefaultToken == IF fn \in {"chapter_slug", "prefixed_chapter_slug"} THEN ChapterToken ELSE SectionToken

\* C5 (slug shape): for every heading text, heading_to_slug of either script
\* returns a non-empty slug of the form ^[a-z0-9]+(-[a-z0-9]+)*$ or the
\* script's default token, and the empty heading gives the default token.
C5_SlugShape ==
    fn \in SlugCalls =>
        /\ slugOut # <<>>
        /\ WellFormedSlug(slugOut) \/ slugOut = DefaultToken
        /\ (fn \in {"chapter_slug", "section_slug"} /\ inp = <<>>) => slugOut = DefaultToken

\* C5 witness: the section slug of a text with an upper-case and a non-ASCII
\* letter, made of two parts joined by a hyphen.
C5_Witness ==
    /\ fn = "section_slug"
    /\ {"B", "e_acute"} \subseteq Chars(inp)
    /\ "-" \in Chars(slugOut)

\* One or more groups of digits separated by single dots.
IsDottedNumber(t) ==
    /\ t # <<>>
    /\ \A k \in 1..Len(t) : IsDigit(t[k]) \/ t[k] = "."
    /\ IsDigit(t[1])
    /\ IsDigit(t[Len(t)])
    /\ \A k \in 1..(Len(t) - 1) : ~(t[k] = "." /\ t[k + 1] = ".")

\* The first g characters of h are a dotted number followed by an optional
\* dot and a whitespace character.
NumberPrefixAt(h, g) ==
    /\ IsDottedNumber(SubSeq(h, 1, g))
    /\ \/ g + 1 <= Len(h) /\ IsSpace(h[g + 1])
       \/ g + 2 <= Len(h) /\ h[g + 1] = "." /\ IsSpace(h[g + 2])

\* The two-digit form of a chunk index below 100.
TwoDigits(n) == <<DigitSeq[(n \div 10) + 1], DigitSeq[(n % 10) + 1]>>

\* C7 (section number): extract_section_number returns the leading dotted
\* number exactly when the heading starts with one that is followed by an
\* optional dot and whitespace, and the empty result otherwise; the file name
\* starts with that number, or with the two-digit index when there is none.
C7_SectionNumber ==
    fn = "section_number" =>
        /\ \A g \in 1..Len(inp) : NumberPrefixAt(inp, g) => numOut = SubSeq(inp, 1, g)
        /\ (\A g \in 1..Len(inp) : ~NumberPrefixAt(inp, g)) => numOut = <<>>
        /\ nameOut = (IF numOut # <<>> THEN numOut ELSE TwoDigits(index))
                        \o <<"-">> \o slugOut \o DotMd
        /\ inp = ExHomeScreen => numOut = <<"4", ".", "1">>
        /\ inp = ExBar => numOut = <<"4", ".", "2", ".", "3">>
        /\ inp \in {ExNoNumber, ExNumberLast} => numOut = <<>>

\* C7 witness: a three-group number with a trailing dot was extracted.
C7_Witness ==
    fn = "section_number" /\ inp = ExBar /\ numOut = <<"4", ".", "2", ".", "3">>

PrefixedCalls == {"prefixed_chapter_slug", "prefixed_section_slug"}

\* C9 (prefix stripping), as claimed: for every title, the slug of prefix +
\* title is the slug of the title.
C9_PrefixStrippedAlways ==
    fn \in PrefixedCalls => slugOut = slugBare

\* The title's first character after leading whitespace is not a digit.
TitleStartsWithoutDigit == Strip(inp) = <<>> \/ ~IsDigit(Strip(inp)[1])

\* C9 (prefix stripping), amended: for every title whose first character
\* after leading whitespace is not a digit, the slug of prefix + title is the
\* slug of the title; the documented examples hold.
C9_PrefixStripped ==
    /\ (fn \in PrefixedCalls /\ TitleStartsWithoutDigit) => slugOut = slugBare
    /\ (fn = "chapter_slug" /\ inp = ExGettingStarted) =>
          slugOut = <<"g", "e", "t", "t", "i", "n", "g", "-", "s", "t", "a", "r", "t", "e", "d">>
    /\ (fn = "section_slug" /\ inp = ExHomeScreen) =>
          slugOut = <<"h", "o", "m", "e", "-", "s", "c", "r", "e", "e", "n">>
    /\ (fn = "section_slug" /\ inp = ExDeepDive) =>
          slugOut = <<"d", "e", "e", "p", "-", "d", "i", "v", "e">>

\* C9 witness: a three-level prefix with trailing dot was stripped from a
\* title of two words.
C9_Witness ==
    /\ fn = "prefixed_section_slug"
    /\ prefix = <<"4", ".", "2", ".", "3", ".", " ">>
    /\ TitleStartsWithoutDigit
    /\ "-" \in Chars(slugOut)
    /\ slugOut = slugBare

\* The line without its final LF.
Body(line) == IF line # <<>> /\ line[Len(line)] = LF THEN SubSeq(line, 1, Len(line) - 1) ELSE line

\* The line starts with exactly depth "#", one space, and a further character.
IsHeadingLine(line, depth) ==
    /\ Len(Body(line)) >= depth + 2
    /\ \A k \in 1..depth : line[k] = "#"
    /\ line[depth + 1] = " "

\* What follows the marker and its space, up to the final LF.
Rest(line, depth) == SubSeq(Body(line), depth + 2, Len(Body(line)))

ScannedLines == SplitLines(inp)

\* The scan's records are in document order, one per line that satisfies
\* isHeading, each with the trimmed rest of its line.
ScanRecords(isHeading(_)) ==
    /\ \A j \in 1..(Len(scanOut) - 1) : scanOut[j][1] < scanOut[j + 1][1]
    /\ {scanOut[j][1] : j \in 1..Len(scanOut)}
          = {k \in 1..Len(ScannedLines) : isHeading(ScannedLines[k])}
    /\ \A j \in 1..Len(scanOut) :
          scanOut[j][2] = Strip(Rest(ScannedLines[scanOut[j][1]], scanDepth))

\* C6 (heading scanner), as claimed: the recorded lines are those with
\* exactly depth "#", a space and a heading text, and every recorded heading
\* text is non-empty.
C6_ScanNonEmptyText ==
    fn = "scan" =>
        /\ ScanRecords(LAMBDA l : IsHeadingLine(l, scanDepth) /\ Strip(Rest(l, scanDepth)) # <<>>)
        /\ \A j \in 1..Len(scanOut) : scanOut[j][2] # <<>>

\* C6 (heading scanner), amended: the recorded lines are those with exactly
\* depth "#", a space and at least one further character other than the final
\* LF; the records are in document order with 1-based line numbers; the
\* recorded text is the trimmed rest of the line, which is empty when that
\* rest is whitespace only.
C6_Scan ==
    fn = "scan" =>
        /\ ScanRecords(LAMBDA l : IsHeadingLine(l, scanDepth))
        /\ \A j \in 1..Len(scanOut) :
              scanOut[j][2] = <<>> <=>
                  \A c \in Chars(Rest(ScannedLines[scanOut[j][1]], scanDepth)) : IsSpace(c)

\* C6 witness: a scan recorded the second line of a text whose first line
\* has one "#" too many.
C6_Witness ==
    /\ fn = "scan"
    /\ Len(ScannedLines) = 2
    /\ Len(ScannedLines[1]) > scanDepth + 1
    /\ SubSeq(ScannedLines[1], 1, scanDepth + 1) = Hashes(scanDepth + 1)
    /\ scanOut = << <<2, <<"a">>>> >>

----------------------------------------------------------------------------
(* Properties of the image scripts (specification SpecImages)              *)

\* How many lines of the given kind the log holds for file f.
LogCount(kind, f) ==
    Cardinality({n \in 1..Len(log) : log[n].kind = kind /\ log[n].file = f})

====
